---- MODULE Spec2Model ----
(***************************************************************************)
(* A model of poker.py: the hand-ranking engine (scrub_hand, low_aces, the *)
(* nine category detectors, hand_rank) and the hand selector poker, which  *)
(* is max(hands, key=hand_rank).                                           *)
(*                                                                         *)
(* Python values are modelled as follows.  A card token such as "AS" is    *)
(* the pair <<"A", "S">> of its rank part x[0:-1] and its suit part x[-1]. *)
(* A scrubbed card is the tuple <<rank, suit>> of integers.  A detector's  *)
(* result is a sequence: <<>> is None, <<c, r>> is the tuple (c, r) and    *)
(* <<n>> is the bare integer n (straight_flush returns the integer         *)
(* ROYAL_FL).  A streak accumulator [None, None] is <<>> and [a, b] is     *)
(* <<a, b>>.                                                               *)
(***************************************************************************)
EXTENDS Integers, Sequences, FiniteSets

VARIABLES hands, k, pc, hand_high_aces, hand_both_aces, h_rank, best, maxval, err

vars == <<hands, k, pc, hand_high_aces, hand_both_aces, h_rank, best, maxval, err>>

(***************************************************************************)
(* Module constants of poker.py.                                           *)
(***************************************************************************)
HIGH_CARD == 0
ONE_PAIR == 1
TWO_PAIR == 2
THREE_OK == 3
STRAIGHT == 4
FLUSH == 5
FULL_H == 6
FOUR_OK == 7
STRAIGHT_FL == 8
ROYAL_FL == 9
LOW_ACE == 0

card_ranks ==
  [c \in {"A", "K", "Q", "J", "T", "9", "8", "7", "6", "5", "4", "3", "2", "1"} |->
     CASE c = "A" -> 14 [] c = "K" -> 13 [] c = "Q" -> 12 [] c = "J" -> 11
       [] c = "T" -> 10 [] c = "9" -> 9 [] c = "8" -> 8 [] c = "7" -> 7
       [] c = "6" -> 6 [] c = "5" -> 5 [] c = "4" -> 4 [] c = "3" -> 3
       [] c = "2" -> 2 [] c = "1" -> 1]

suits ==
  [s \in {"C", "S", "D", "H"} |->
     CASE s = "C" -> 0 [] s = "S" -> 1 [] s = "D" -> 2 [] s = "H" -> 3]

None == <<>>

(***************************************************************************)
(* Python's order on tuples of two integers, bisect.insort and sorted.     *)
(***************************************************************************)
TupleLt(a, b) == a[1] < b[1] \/ (a[1] = b[1] /\ a[2] < b[2])

\* bisect.insort(a, x): x goes after the entries of the sorted list a that
\* are not greater than it.
insort(a, x) ==
  LET lo == Cardinality({p \in 1..Len(a) : ~TupleLt(x, a[p])})
  IN  SubSeq(a, 1, lo) \o <<x>> \o SubSeq(a, lo + 1, Len(a))

RECURSIVE sorted(_)
sorted(s) == IF s = <<>> THEN <<>>
             ELSE insort(sorted(SubSeq(s, 1, Len(s) - 1)), s[Len(s)])

\* scrub_hand: a new sorted list of (rank, suit) tuples; arg is the content
\* of the list passed in once the call has returned.
scrub_hand(hand) ==
  [ret |-> sorted([p \in 1..Len(hand) |->
                     <<card_ranks[hand[p][1]], suits[hand[p][2]]>>]),
   arg |-> hand]

\* The loop of low_aces over reversed(hand), from index n down: acc is
\* hand_low_aces.
RECURSIVE low_aces_loop(_, _, _)
low_aces_loop(hand, n, acc) ==
  IF n = 0 THEN acc
  ELSE LET i == hand[n][1]
           j == hand[n][2]
       IN  IF i < card_ranks["A"] THEN acc
           ELSE IF i > card_ranks["A"] THEN low_aces_loop(hand, n - 1, acc)
           ELSE low_aces_loop(hand, n - 1, insort(acc, <<LOW_ACE, j>>))

\* low_aces inserting into the list it was given, with no copy.
low_aces_shared(hand) ==
  [ret |-> low_aces_loop(hand, Len(hand), hand),
   arg |-> low_aces_loop(hand, Len(hand), hand)]

\* low_aces: the aces are inserted into a deep copy; arg is the content of
\* the list passed in once the call has returned.
low_aces(hand) ==
  [ret |-> low_aces_loop(hand, Len(hand), hand),
   arg |-> hand]

(***************************************************************************)
(* The category detectors.  Each scans reversed(hand): index n runs from   *)
(* Len(hand) down to 1, i is the card's rank and j its suit; a result      *)
(* returned from inside the scan is the loop's break.                      *)
(***************************************************************************)
NoStreaks == [j \in 0..3 |-> <<>>]

RECURSIVE straight_flush_loop(_, _, _)
straight_flush_loop(hand, n, streak) ==
  IF n = 0 THEN None
  ELSE LET i == hand[n][1]
           j == hand[n][2]
       IN  IF streak[j] = <<>> \/ streak[j][2] > i + 1
             THEN straight_flush_loop(hand, n - 1, [streak EXCEPT ![j] = <<i, i>>])
           ELSE IF streak[j][2] = i + 1
             THEN IF streak[j][1] - i = 4
                    THEN <<STRAIGHT_FL, streak[j][1]>>
                    ELSE straight_flush_loop(hand, n - 1,
                           [streak EXCEPT ![j] = <<streak[j][1], i>>])
           ELSE straight_flush_loop(hand, n - 1, streak)

straight_flush(hand) ==
  LET hand_rank_ == straight_flush_loop(hand, Len(hand), NoStreaks)
  IN  IF hand_rank_ # None /\ hand_rank_[2] = card_ranks["A"]
        THEN <<ROYAL_FL>>
        ELSE hand_rank_

kind_to_rank(num) ==
  CASE num = 2 -> ONE_PAIR [] num = 3 -> THREE_OK [] num = 4 -> FOUR_OK

RECURSIVE of_kind_loop(_, _, _, _)
of_kind_loop(hand, num, n, streak) ==
  IF n = 0 THEN None
  ELSE LET i == hand[n][1]
       IN  IF streak = <<>> \/ streak[1] # i
             THEN of_kind_loop(hand, num, n - 1, <<i, 1>>)
           ELSE IF streak[2] + 1 = num
             THEN <<kind_to_rank(num), i>>
             ELSE of_kind_loop(hand, num, n - 1, <<i, streak[2] + 1>>)

of_kind(hand, num) == of_kind_loop(hand, num, Len(hand), <<>>)

\* s0 is streak[0] and s1 is streak[1].
RECURSIVE full_house_loop(_, _, _, _)
full_house_loop(hand, n, s0, s1) ==
  IF n = 0 THEN None
  ELSE LET i == hand[n][1]
       IN  IF s0 = <<>>
             THEN full_house_loop(hand, n - 1, <<i, 1>>, s1)
           ELSE IF s0[1] = i
             THEN LET c == s0[2] + 1
                  IN  IF s1 # <<>> /\ ((c = 2 /\ s1[2] = 3) \/ (c = 3 /\ s1[2] = 2))
                        THEN <<FULL_H, s0[1]>>
                        ELSE full_house_loop(hand, n - 1, <<i, c>>, s1)
           ELSE IF s1 = <<>> \/ s1[1] # i
             THEN full_house_loop(hand, n - 1,
                                  IF s1 # <<>> THEN s1 ELSE s0, <<i, 1>>)
           ELSE LET c == s1[2] + 1
                IN  IF (s0[2] = 2 /\ c = 3) \/ (s0[2] = 3 /\ c = 2)
                      THEN <<FULL_H, s0[1]>>
                      ELSE full_house_loop(hand, n - 1, s0, <<i, c>>)

\* full_house with the tiebreak of its last branch read from streak[1].
RECURSIVE full_house_streak1_loop(_, _, _, _)
full_house_streak1_loop(hand, n, s0, s1) ==
  IF n = 0 THEN None
  ELSE LET i == hand[n][1]
       IN  IF s0 = <<>>
             THEN full_house_streak1_loop(hand, n - 1, <<i, 1>>, s1)
           ELSE IF s0[1] = i
             THEN LET c == s0[2] + 1
                  IN  IF s1 # <<>> /\ ((c = 2 /\ s1[2] = 3) \/ (c = 3 /\ s1[2] = 2))
                        THEN <<FULL_H, s0[1]>>
                        ELSE full_house_streak1_loop(hand, n - 1, <<i, c>>, s1)
           ELSE IF s1 = <<>> \/ s1[1] # i
             THEN full_house_streak1_loop(hand, n - 1,
                                  IF s1 # <<>> THEN s1 ELSE s0, <<i, 1>>)
           ELSE LET c == s1[2] + 1
                IN  IF (s0[2] = 2 /\ c = 3) \/ (s0[2] = 3 /\ c = 2)
                      THEN <<FULL_H, s1[1]>>
                      ELSE full_house_streak1_loop(hand, n - 1, s0, <<i, c>>)

full_house_streak1(hand) == full_house_streak1_loop(hand, Len(hand), <<>>, <<>>)

\* full_house declaring on two counts of 2, the test of two_pair.
RECURSIVE full_house_pairs_loop(_, _, _, _)
full_house_pairs_loop(hand, n, s0, s1) ==
  IF n = 0 THEN None
  ELSE LET i == hand[n][1]
       IN  IF s0 = <<>>
             THEN full_house_pairs_loop(hand, n - 1, <<i, 1>>, s1)
           ELSE IF s0[1] = i
             THEN LET c == s0[2] + 1
                  IN  IF s1 # <<>> /\ ((c = 2 /\ s1[2] = 2) \/ (c = 3 /\ s1[2] = 2))
                        THEN <<FULL_H, s0[1]>>
                        ELSE full_house_pairs_loop(hand, n - 1, <<i, c>>, s1)
           ELSE IF s1 = <<>> \/ s1[1] # i
             THEN full_house_pairs_loop(hand, n - 1,
                                  IF s1 # <<>> THEN s1 ELSE s0, <<i, 1>>)
           ELSE LET c == s1[2] + 1
                IN  IF (s0[2] = 2 /\ c = 2) \/ (s0[2] = 3 /\ c = 2)
                      THEN <<FULL_H, s0[1]>>
                      ELSE full_house_pairs_loop(hand, n - 1, s0, <<i, c>>)

full_house_pairs(hand) == full_house_pairs_loop(hand, Len(hand), <<>>, <<>>)

full_house(hand) == full_house_loop(hand, Len(hand), <<>>, <<>>)

RECURSIVE flush_loop(_, _, _)
flush_loop(hand, n, streak) ==
  IF n = 0 THEN None
  ELSE LET i == hand[n][1]
           j == hand[n][2]
       IN  IF streak[j] = <<>>
             THEN flush_loop(hand, n - 1, [streak EXCEPT ![j] = <<i, 1>>])
           ELSE IF streak[j][2] + 1 = 5
             THEN <<FLUSH, streak[j][1]>>
             ELSE flush_loop(hand, n - 1,
                    [streak EXCEPT ![j] = <<streak[j][1], streak[j][2] + 1>>])

flush(hand) == flush_loop(hand, Len(hand), NoStreaks)

RECURSIVE straight_loop(_, _, _)
straight_loop(hand, n, streak) ==
  IF n = 0 THEN None
  ELSE LET i == hand[n][1]
       IN  IF streak = <<>> \/ streak[2] > i + 1
             THEN straight_loop(hand, n - 1, <<i, i>>)
           ELSE IF streak[2] = i
             THEN straight_loop(hand, n - 1, streak)
           ELSE IF streak[2] = i + 1
             THEN IF streak[1] - i = 4
                    THEN <<STRAIGHT, streak[1]>>
                    ELSE straight_loop(hand, n - 1, <<streak[1], i>>)
           ELSE straight_loop(hand, n - 1, streak)

\* straight with a repeated rank starting the run again.
RECURSIVE straight_reset_loop(_, _, _)
straight_reset_loop(hand, n, streak) ==
  IF n = 0 THEN None
  ELSE LET i == hand[n][1]
       IN  IF streak = <<>> \/ streak[2] > i + 1 \/ streak[2] = i
             THEN straight_reset_loop(hand, n - 1, <<i, i>>)
           ELSE IF streak[2] = i + 1
             THEN IF streak[1] - i = 4
                    THEN <<STRAIGHT, streak[1]>>
                    ELSE straight_reset_loop(hand, n - 1, <<streak[1], i>>)
           ELSE straight_reset_loop(hand, n - 1, streak)

straight_reset(hand) == straight_reset_loop(hand, Len(hand), <<>>)

straight(hand) == straight_loop(hand, Len(hand), <<>>)

\* s0 is streak[0] and s1 is streak[1].
RECURSIVE two_pair_loop(_, _, _, _)
two_pair_loop(hand, n, s0, s1) ==
  IF n = 0 THEN None
  ELSE LET i == hand[n][1]
       IN  IF s0 = <<>>
             THEN two_pair_loop(hand, n - 1, <<i, 1>>, s1)
           ELSE IF s0[1] = i
             THEN LET c == s0[2] + 1
                  IN  IF s1 # <<>> /\ c = 2 /\ s1[2] = 2
                        THEN <<FULL_H, s0[1]>>
                        ELSE two_pair_loop(hand, n - 1, <<i, c>>, s1)
           ELSE IF s1 = <<>> \/ s1[1] # i
             THEN two_pair_loop(hand, n - 1, s0, <<i, 1>>)
           ELSE LET c == s1[2] + 1
                IN  IF s0[2] = 2 /\ c = 2
                      THEN <<TWO_PAIR, s0[1]>>
                      ELSE two_pair_loop(hand, n - 1, s0, <<i, c>>)

two_pair(hand) == two_pair_loop(hand, Len(hand), <<>>, <<>>)

high_card(hand) == IF Len(hand) > 0 THEN <<0, hand[1][1]>> ELSE None

(***************************************************************************)
(* hand_rank as one function: the first detector, in the order of the      *)
(* source, whose result is not None.                                       *)
(***************************************************************************)
hand_rank(hand) ==
  LET hha == scrub_hand(hand).ret
      hba == low_aces(hha).ret
      r1 == straight_flush(hba)
      r2 == IF r1 = None THEN of_kind(hha, 4) ELSE r1
      r3 == IF r2 = None THEN full_house(hha) ELSE r2
      r4 == IF r3 = None THEN flush(hha) ELSE r3
      r5 == IF r4 = None THEN straight(hba) ELSE r4
      r6 == IF r5 = None THEN of_kind(hha, 3) ELSE r5
      r7 == IF r6 = None THEN two_pair(hha) ELSE r6
      r8 == IF r7 = None THEN of_kind(hha, 2) ELSE r7
  IN  IF r8 = None THEN high_card(hha) ELSE r8

(***************************************************************************)
(* Python's > on two hand ranks of the same type, as max uses it.          *)
(***************************************************************************)
IsTuple(v) == Len(v) = 2
SameType(a, b) == Len(a) = Len(b)
Greater(a, b) ==
  IF IsTuple(a) THEN a[1] > b[1] \/ (a[1] = b[1] /\ a[2] > b[2])
  ELSE a[1] > b[1]

(***************************************************************************)
(* Inputs.  MaxCards bounds the size of a dealt hand and MaxHands the      *)
(* number of hands passed to poker.  A dealt hand is a selection of cards  *)
(* of one of two decks, in deck order (which is not rank order, so that    *)
(* scrub_hand has to sort): StraightDeck holds runs of ranks, aces and a   *)
(* five-card suit, PairDeck holds repeated ranks.  Lists of several hands  *)
(* are drawn from hands of the test functions of the source.               *)
(***************************************************************************)
MaxCards == 7
MaxHands == 3

Tok(r, s) == <<r, s>>

StraightDeck ==
  << Tok("A","S"), Tok("A","H"), Tok("K","S"), Tok("2","S"), Tok("3","S"),
     Tok("3","C"), Tok("4","S"), Tok("5","S"), Tok("5","C"), Tok("6","S"),
     Tok("7","S"), Tok("8","S"), Tok("9","S"), Tok("T","S"), Tok("J","S"),
     Tok("Q","S") >>

PairDeck ==
  << Tok("T","D"), Tok("T","C"), Tok("T","H"), Tok("T","S"), Tok("K","S"),
     Tok("9","H"), Tok("9","C"), Tok("7","C"), Tok("7","D"), Tok("7","H"),
     Tok("2","D"), Tok("2","H"), Tok("2","S"), Tok("5","S") >>

\* The selections of m cards among the first n cards of deck, in deck order.
RECURSIVE Deals(_, _, _)
Deals(deck, n, m) ==
  IF m = 0 THEN {<<>>}
  ELSE IF n < m THEN {}
  ELSE Deals(deck, n - 1, m)
         \cup {Append(h, deck[n]) : h \in Deals(deck, n - 1, m - 1)}

DealtHands ==
  UNION {Deals(StraightDeck, Len(StraightDeck), m) \cup Deals(PairDeck, Len(PairDeck), m)
           : m \in 1..MaxCards}

\* The hands of test() and t1 of test_hand_rank().
sf == << Tok("6","C"), Tok("7","C"), Tok("8","C"), Tok("9","C"), Tok("T","C") >>
fh == << Tok("T","D"), Tok("T","C"), Tok("T","H"), Tok("7","C"), Tok("7","D") >>
s1 == << Tok("A","S"), Tok("2","S"), Tok("3","S"), Tok("4","S"), Tok("5","C") >>
s2 == << Tok("2","C"), Tok("3","C"), Tok("4","C"), Tok("5","S"), Tok("6","S") >>
tp == << Tok("5","S"), Tok("5","D"), Tok("9","H"), Tok("9","C"), Tok("6","S") >>
ah == << Tok("A","S"), Tok("2","S"), Tok("3","S"), Tok("4","S"), Tok("6","C") >>
t1 == << Tok("A","H"), Tok("K","H"), Tok("Q","H"), Tok("J","H"), Tok("T","H"),
         Tok("5","H") >>

TestHands == {sf, fh, s1, s2, tp, ah, t1}

RECURSIVE Lists(_)
Lists(n) ==
  IF n = 0 THEN {<<>>}
  ELSE {Append(l, h) : l \in Lists(n - 1), h \in TestHands}

InputLists ==
  {<<h>> : h \in DealtHands} \cup UNION {Lists(n) : n \in 2..MaxHands}

(***************************************************************************)
(* The state machine: poker(hands) is max(hands, key=hand_rank).  k is the *)
(* index of the hand max is at, pc the statement of hand_rank about to     *)
(* run for it; best and maxval are max's current maximum item and key.     *)
(***************************************************************************)
Init ==
  /\ hands \in InputLists
  /\ k = 1
  /\ pc = "scrub_hand"
  /\ hand_high_aces = <<>>
  /\ hand_both_aces = <<>>
  /\ h_rank = None
  /\ best = 0
  /\ maxval = None
  /\ err = "none"

\* hand_high_aces = scrub_hand(hand)
ScrubHand ==
  /\ pc = "scrub_hand"
  /\ LET r == scrub_hand(hands[k])
     IN  /\ hand_high_aces' = r.ret
         /\ hands' = [hands EXCEPT ![k] = r.arg]
  /\ pc' = "low_aces"
  /\ UNCHANGED <<k, hand_both_aces, h_rank, best, maxval, err>>

\* hand_both_aces = low_aces(hand_high_aces)
LowAces ==
  /\ pc = "low_aces"
  /\ LET r == low_aces(hand_high_aces)
     IN  /\ hand_both_aces' = r.ret
         /\ hand_high_aces' = r.arg
  /\ pc' = "straight_flush"
  /\ UNCHANGED <<hands, k, h_rank, best, maxval, err>>

\* if h_rank is None: h_rank = <detector>(...)
Try(at, res, next) ==
  /\ pc = at
  /\ h_rank' = IF h_rank = None THEN res ELSE h_rank
  /\ pc' = next
  /\ UNCHANGED <<hands, k, hand_high_aces, hand_both_aces, best, maxval, err>>

TryStraightFlush == Try("straight_flush", straight_flush(hand_both_aces), "four_kind")
TryFourKind == Try("four_kind", of_kind(hand_high_aces, 4), "full_house")
TryFullHouse == Try("full_house", full_house(hand_high_aces), "flush")
TryFlush == Try("flush", flush(hand_high_aces), "straight")
TryStraight == Try("straight", straight(hand_both_aces), "three_kind")
TryThreeKind == Try("three_kind", of_kind(hand_high_aces, 3), "two_pair")
TryTwoPair == Try("two_pair", two_pair(hand_high_aces), "one_pair")
TryOnePair == Try("one_pair", of_kind(hand_high_aces, 2), "high_card")
TryHighCard == Try("high_card", high_card(hand_high_aces), "return")

\* max goes on to the next hand and calls hand_rank on it, or returns.
Advance ==
  IF k < Len(hands)
    THEN /\ k' = k + 1
         /\ pc' = "scrub_hand"
         /\ hand_high_aces' = <<>>
         /\ hand_both_aces' = <<>>
         /\ h_rank' = None
    ELSE /\ pc' = "done"
         /\ UNCHANGED <<k, hand_high_aces, hand_both_aces, h_rank>>

\* hand_rank returns h_rank for the first hand: it is the maximum so far.
MaxFirst ==
  /\ pc = "return"
  /\ best = 0
  /\ best' = k
  /\ maxval' = h_rank
  /\ Advance
  /\ UNCHANGED <<hands, err>>

\* max replacing the maximum also by an equal key.
MaxCompareLastWins ==
  /\ pc = "return"
  /\ best # 0
  /\ SameType(h_rank, maxval)
  /\ IF ~Greater(maxval, h_rank)
       THEN best' = k /\ maxval' = h_rank
       ELSE UNCHANGED <<best, maxval>>
  /\ Advance
  /\ UNCHANGED <<hands, err>>

\* hand_rank returns h_rank for a later hand: it replaces the maximum when
\* it is strictly greater.
MaxCompare ==
  /\ pc = "return"
  /\ best # 0
  /\ SameType(h_rank, maxval)
  /\ IF Greater(h_rank, maxval)
       THEN best' = k /\ maxval' = h_rank
       ELSE UNCHANGED <<best, maxval>>
  /\ Advance
  /\ UNCHANGED <<hands, err>>

\* An integer and a tuple are compared.  Python 3 raises TypeError.
MaxTypeError ==
  /\ pc = "return"
  /\ best # 0
  /\ ~SameType(h_rank, maxval)
  /\ pc' = "raised"
  /\ err' = "TypeError"
  /\ UNCHANGED <<hands, k, hand_high_aces, hand_both_aces, h_rank, best, maxval>>

\* An integer and a tuple are compared.  Python 2 orders a number before
\* any tuple.
MaxMixedOrder ==
  /\ pc = "return"
  /\ best # 0
  /\ ~SameType(h_rank, maxval)
  /\ IF IsTuple(h_rank)
       THEN best' = k /\ maxval' = h_rank
       ELSE UNCHANGED <<best, maxval>>
  /\ Advance
  /\ UNCHANGED <<hands, err>>

Next ==
  \/ ScrubHand
  \/ LowAces
  \/ TryStraightFlush
  \/ TryFourKind
  \/ TryFullHouse
  \/ TryFlush
  \/ TryStraight
  \/ TryThreeKind
  \/ TryTwoPair
  \/ TryOnePair
  \/ TryHighCard
  \/ MaxFirst
  \/ MaxCompare
  \/ MaxTypeError
  \/ MaxMixedOrder

Spec == Init /\ [][Next]_vars

(***************************************************************************)
(* Vocabulary of the properties: what a hand holds, read from its tokens.  *)
(***************************************************************************)
RankOf(tok) == card_ranks[tok[1]]
RanksIn(hand) == {RankOf(hand[p]) : p \in 1..Len(hand)}
SuitsIn(hand) == {hand[p][2] : p \in 1..Len(hand)}
CountRank(hand, r) == Cardinality({p \in 1..Len(hand) : RankOf(hand[p]) = r})
HighestRank(hand) == CHOOSE m \in RanksIn(hand) : \A r \in RanksIn(hand) : r <= m
HasTriple(hand) == \E r \in RanksIn(hand) : CountRank(hand, r) >= 3
\* hand_rank has run to its return statement for hands[k]; h_rank is the
\* value it returns.
Returning == pc = "return"
\* The order of the specification on (category, tiebreak) pairs.
RankLess(a, b) == a[1] < b[1] \/ (a[1] = b[1] /\ a[2] < b[2])

(***************************************************************************)
(* C1.  A five-card hand whose ranks are A, 2, 3, 4, 5 and whose cards are *)
(* not all of one suit is ranked (STRAIGHT, 5), and poker prefers it to a  *)
(* two-pair hand.  The code does not: LOW_ACE is 0, so the low ace never   *)
(* continues the run that ends at 2.                                       *)
(***************************************************************************)
IsWheel(hand) ==
  /\ Len(hand) = 5
  /\ RanksIn(hand) = {14, 2, 3, 4, 5}
  /\ Cardinality(SuitsIn(hand)) > 1

C1_WheelIsStraightFive ==
  /\ (Returning /\ IsWheel(hands[k])) => h_rank = <<STRAIGHT, 5>>
  /\ (pc \in {"done", "raised"} /\ hands = <<s1, tp>>) => (pc = "done" /\ best = 1)

(***************************************************************************)
(* C2.  A hand that holds T, J, Q, K, A of one suit is ranked by a         *)
(* (category, tiebreak) pair of category ROYAL_FL, and poker on a list of  *)
(* one such hand and hands of other categories returns that hand without   *)
(* error.  The code returns the bare integer ROYAL_FL instead of a pair.   *)
(***************************************************************************)
HasRoyal(hand) ==
  \E s \in SuitsIn(hand) :
    \A r \in {"T", "J", "Q", "K", "A"} : \E p \in 1..Len(hand) : hand[p] = Tok(r, s)

C2_RoyalFlushIsComparableMaximum ==
  /\ (Returning /\ HasRoyal(hands[k])) => (IsTuple(h_rank) /\ h_rank[1] = ROYAL_FL)
  /\ (/\ pc \in {"done", "raised"}
      /\ Cardinality({i \in 1..Len(hands) : HasRoyal(hands[i])}) = 1)
       => (pc = "done" /\ err = "none" /\ HasRoyal(hands[best]))

(***************************************************************************)
(* C3.  A five-card hand of two cards of rank a, two of rank b < a and a   *)
(* fifth card of a third rank is ranked (TWO_PAIR, a) wherever the fifth   *)
(* rank lies.  The code misses the two pairs when the fifth card is the    *)
(* highest: it occupies streak[0] for the whole scan.                      *)
(***************************************************************************)
IsTwoPairHand(hand, a, b) ==
  /\ Len(hand) = 5
  /\ a > b
  /\ CountRank(hand, a) = 2
  /\ CountRank(hand, b) = 2

C3_TwoPairHigherPair ==
  \A a, b \in 2..14 :
    (Returning /\ IsTwoPairHand(hands[k], a, b)) => h_rank = <<TWO_PAIR, a>>

(***************************************************************************)
(* C4.  A five-card hand of three cards of rank t and two of rank p.       *)
(***************************************************************************)
IsFullHouseHand(hand, t, p) ==
  /\ Len(hand) = 5
  /\ t # p
  /\ CountRank(hand, t) = 3
  /\ CountRank(hand, p) = 2

\* C4 as stated: the tiebreak is t, the rank of the three cards, both when
\* t > p and when t < p.
C4_FullHouseTripleRank ==
  \A t, p \in 2..14 :
    (Returning /\ IsFullHouseHand(hands[k], t, p)) => h_rank = <<FULL_H, t>>

\* C4 as amended: the hand is ranked (FULL_H, h) where h is the higher of
\* t and p: the rank of the three cards when t > p, the rank of the pair
\* when t < p.
C4_FullHouseHigherRank ==
  \A t, p \in 2..14 :
    (Returning /\ IsFullHouseHand(hands[k], t, p))
      => h_rank = <<FULL_H, IF t > p THEN t ELSE p>>

\* A full house whose pair outranks its three cards has been ranked.
C4_Witness ==
  \E t, p \in 2..14 :
    /\ Returning
    /\ IsFullHouseHand(hands[k], t, p)
    /\ t < p
    /\ h_rank = <<FULL_H, p>>

(***************************************************************************)
(* C5.  When none of the eight pattern detectors reports a result for a    *)
(* hand, it is ranked (HIGH_CARD, m), m the highest rank of its cards;     *)
(* stated here for the hands of five cards or more.  The code returns      *)
(* hand[0][0], the lowest rank of the ascending hand.                      *)
(***************************************************************************)
NoPattern ==
  /\ straight_flush(hand_both_aces) = None
  /\ of_kind(hand_high_aces, 4) = None
  /\ full_house(hand_high_aces) = None
  /\ flush(hand_high_aces) = None
  /\ straight(hand_both_aces) = None
  /\ of_kind(hand_high_aces, 3) = None
  /\ two_pair(hand_high_aces) = None
  /\ of_kind(hand_high_aces, 2) = None

C5_HighCardHighestRank ==
  (Returning /\ Len(hands[k]) >= 5 /\ NoPattern)
    => h_rank = <<HIGH_CARD, HighestRank(hands[k])>>

(***************************************************************************)
(* C6.  When every hand of the list is ranked by a (category, tiebreak)    *)
(* pair, poker returns without error one hand of the list, no hand of the  *)
(* list has a greater rank, and every hand before it in the list has a     *)
(* strictly smaller rank (so of several maximal hands the first is         *)
(* returned).                                                              *)
(***************************************************************************)
AllPairs == \A i \in 1..Len(hands) : IsTuple(hand_rank(hands[i]))

NoLowAce(hand) == \A p \in 1..Len(hand) : hand[p][1] # LOW_ACE

DetectorsRunning ==
  pc \in {"straight_flush", "four_kind", "full_house", "flush", "straight",
          "three_kind", "two_pair", "one_pair", "high_card", "return"}

C7_State ==
  /\ DetectorsRunning =>
       /\ NoLowAce(hand_high_aces)
       /\ hand_high_aces = scrub_hand(hands[k]).ret
  /\ Returning => h_rank = hand_rank(hands[k])

C7_HandUnchanged ==
  /\ []C7_State
  /\ [][/\ hands' = hands
        /\ pc = "low_aces" => hand_high_aces' = hand_high_aces]_vars

\* A hand with an ace has been ranked: the low ace is in hand_both_aces and
\* not in hand_high_aces.
C7_Witness ==
  /\ Returning
  /\ Len(hands[k]) >= 5
  /\ 14 \in RanksIn(hands[k])
  /\ ~NoLowAce(hand_both_aces)
  /\ NoLowAce(hand_high_aces)
  /\ Len(hand_both_aces) > Len(hand_high_aces)

(***************************************************************************)
(* C8.  A hand of 6 or 7 cards that holds three cards of one rank and two  *)
(* of another, no straight flush and no four of a rank, is ranked in       *)
(* category FULL_H.  The code misses it when a card of a rank between the  *)
(* two lies in the hand (T T T 9 7 7): the rank between takes streak[1]    *)
(* and the three leave streak[0].                                          *)
(***************************************************************************)
HoldsFullHouse(hand) ==
  \E t, p \in RanksIn(hand) :
    t # p /\ CountRank(hand, t) >= 3 /\ CountRank(hand, p) >= 2

C8_FullHouseInSixOrSeven ==
  (/\ Returning
   /\ Len(hands[k]) \in {6, 7}
   /\ HoldsFullHouse(hands[k])
   /\ straight_flush(hand_both_aces) = None
   /\ \A r \in RanksIn(hands[k]) : CountRank(hands[k], r) < 4)
    => (IsTuple(h_rank) /\ h_rank[1] = FULL_H)

(***************************************************************************)
(* C9.  For a hand of five cards or more, straight applied to the          *)
(* ace-duplicated hand returns (STRAIGHT, h) exactly when the ranks of the *)
(* hand (ace as 14) hold five consecutive ranks, h being the top of the    *)
(* highest such run, and None otherwise; cards repeating a rank of the run *)
(* do not break it.                                                        *)
(***************************************************************************)
RunTops(hand) == {h \in 6..14 : \A r \in (h - 4)..h : r \in RanksIn(hand)}

ExpectedStraight(hand) ==
  IF RunTops(hand) = {} THEN None
  ELSE <<STRAIGHT, CHOOSE h \in RunTops(hand) : \A g \in RunTops(hand) : g <= h>>

C10_FullHouseNeedsTriple ==
  /\ (Returning /\ IsTuple(h_rank) /\ h_rank[1] = FULL_H) => HasTriple(hands[k])
  /\ DetectorsRunning =>
       /\ two_pair(hand_high_aces) # None => two_pair(hand_high_aces)[1] = TWO_PAIR
       /\ full_house(hand_high_aces) # None => HasTriple(hands[k])

\* A hand of two pairs and no three of a rank has been ranked TWO_PAIR.
C10_Witness ==
  /\ Returning
  /\ Len(hands[k]) >= 5
  /\ ~HasTriple(hands[k])
  /\ two_pair(hand_high_aces) # None
  /\ h_rank[1] = TWO_PAIR

====
